---------------------------- MODULE Spec2Model ----------------------------
(***************************************************************************)
(* A model of the tree merger of src/src/treemerge.c: the counter          *)
(* pre-pass (rm_tm_count_files), rm_tm_feed, the promotion loop of         *)
(* rm_tm_finish and rm_tm_extract.                                         *)
(*                                                                         *)
(* Paths are sequences of one-character strings, so that the code's byte   *)
(* loops (g_path_get_dirname, rm_tm_count_art_callback, rm_tm_sort_paths)  *)
(* are modelled on the bytes they read.  A pointer to an RmDirectory is    *)
(* its dirname: dir_tree holds exactly one RmDirectory per dirname.        *)
(* A pointer to an RmFile is the file record itself.                       *)
(***************************************************************************)
EXTENDS Integers, Sequences, FiniteSets, TLC

VARIABLES
    count_tree,     \* RmTreeMerger.count_tree: dirname -> counted files
    dir_tree,       \* RmTreeMerger.dir_tree:   dirname -> RmDirectory
    valid_dirs,     \* RmTreeMerger.valid_dirs (head first)
    result_table,   \* RmTreeMerger.result_table: nodes in insertion order
    output,         \* what rm_tm_extract printed: groups of dirnames
    pc,             \* where the caller is: "feed", "finish", "done",
                    \* "again" (after a second rm_tm_finish), "crashed"
    walk,           \* history: how the walk of rm_tm_count_files ended
    counted,        \* history: the regular files the pre-pass counted
    fed,            \* history: the files fed so far, in feeding order
    promoted        \* history: the promotions of the last pass of rm_tm_finish

vars == <<count_tree, dir_tree, valid_dirs, result_table, output, pc,
          walk, counted, fed, promoted>>

---------------------------------------------------------------------------
(* Bounds of the model *)

\* at most this many rm_tm_feed calls in one run
MaxFeeds == 4

---------------------------------------------------------------------------
(* The files of the modelled file system.  A digest is <<first word, rest>>: *)
(* the first 8 bytes, which rm_directory_add folds into common_hash, and    *)
(* the remaining bytes, which only the hash_trie key sees.                  *)

File(p, d) == [path |-> p, digest |-> d]

\* the files, in a fixed order of enumeration
FileList ==
    << File(<<"/", "a", "/", "x">>,           <<1, 0>>),
       File(<<"/", "a", "/", "y">>,           <<2, 0>>),
       File(<<"/", "a", "/", "b", "/", "y">>, <<1, 0>>),
       File(<<"/", "c", "/", "d", "/", "z">>, <<1, 0>>),
       File(<<"/", "c", "/", "d", "/", "w">>, <<2, 1>>),
       File(<<"/", "f">>,                     <<5, 0>>) >>

Files == {FileList[i] : i \in 1..Len(FileList)}

---------------------------------------------------------------------------
(* Paths *)

G_DIR_SEPARATOR == "/"

\* the largest index i of p with p[i] = c, 0 when there is none (strrchr)
RECURSIVE StrRChr(_, _, _)
StrRChr(p, c, i) ==
    IF i = 0 THEN 0
    ELSE IF p[i] = c THEN i
    ELSE StrRChr(p, c, i - 1)

\* the separators before index i are skipped (while base > file_name && *base == '/')
RECURSIVE SkipSeparators(_, _)
SkipSeparators(p, i) ==
    IF i > 1 /\ p[i] = G_DIR_SEPARATOR THEN SkipSeparators(p, i - 1) ELSE i

\* g_path_get_dirname: "." without a separator, else the bytes up to the
\* last component, the separators before it removed but never the first byte
g_path_get_dirname(p) ==
    LET base == StrRChr(p, G_DIR_SEPARATOR, Len(p)) IN
    IF base = 0 THEN <<".">>
    ELSE SubSeq(p, 1, SkipSeparators(p, base))

\* the number of separators of a path
Depth(p) == Cardinality({i \in 1..Len(p) : p[i] = G_DIR_SEPARATOR})

\* the directories above a path, nearest first, up to the fixed point
RECURSIVE Ancestors(_)
Ancestors(p) ==
    LET d == g_path_get_dirname(p) IN
    IF d = p THEN {} ELSE {d} \cup Ancestors(d)

AllDirs == UNION {Ancestors(f.path) : f \in Files}

\* p lies transitively under directory d
Under(p, d) == d \in Ancestors(p)

---------------------------------------------------------------------------
(* The counter pre-pass *)

\* a slip in new_key_len: the key keeps the separator it was cut at
CountKey_with_separator(p, i) == SubSeq(p, 1, i)

\* the key rm_tm_count_art_callback builds for the separator at index i
\* (1-based): "/" for the first byte, else the bytes before the separator
CountKey(p, i) == IF i = 1 THEN <<"/">> ELSE SubSeq(p, 1, i - 1)

\* rm_tm_count_art_callback on one key of file_tree: one more for the key
\* of every separator from the last byte down to the first
RECURSIVE rm_tm_count_art_callback(_, _, _)
rm_tm_count_art_callback(tree, p, i) ==
    IF i < 1 THEN tree
    ELSE IF p[i] = G_DIR_SEPARATOR
         THEN LET key == CountKey(p, i)
                  old == IF key \in DOMAIN tree THEN tree[key] ELSE 0
                  new == [k \in DOMAIN tree \cup {key} |->
                             IF k = key THEN old + 1 ELSE tree[k]]
              IN  rm_tm_count_art_callback(new, p, i - 1)
         ELSE rm_tm_count_art_callback(tree, p, i - 1)

\* art_iter over file_tree, which holds each collected path once
RECURSIVE CountAll(_, _)
CountAll(tree, paths) ==
    IF paths = {} THEN tree
    ELSE LET p == CHOOSE q \in paths : TRUE
         IN  CountAll(rm_tm_count_art_callback(tree, p, Len(p)), paths \ {p})

EmptyTree == [k \in {} |-> 0]

\* rm_tm_count_files: the count tree of the regular files the walker read
rm_tm_count_files(files) == CountAll(EmptyTree, {f.path : f \in files})

\* how the walk of rm_tm_count_files can end: it counts, or it returns
\* false on an empty list of paths, on fts_open and on fts_close
WalkOutcomes == {"ok", "no_paths", "open_failed", "close_failed"}

\* rm_tm_count_files with the end of its walk: each of the three returns of
\* false comes before art_iter, so that nothing was counted
rm_tm_count_files_walk(files, end) ==
    [ok         |-> end = "ok",
     count_tree |-> IF end = "ok" THEN rm_tm_count_files(files) ELSE EmptyTree]

\* art_search in count_tree, GPOINTER_TO_UINT(NULL) being 0
CountLookup(tree, d) == IF d \in DOMAIN tree THEN tree[d] ELSE 0

---------------------------------------------------------------------------
(* RmDirectory *)

\* the bits of a guint, scaled down for the model (a digest word, the
\* guint64 common_hash is made of, is wider)
UintBits == 2

RECURSIVE Pow2(_)
Pow2(n) == IF n = 0 THEN 1 ELSE 2 * Pow2(n - 1)

\* bitwise exclusive or of two naturals
RECURSIVE Xor(_, _)
Xor(a, b) ==
    IF a = 0 THEN b
    ELSE IF b = 0 THEN a
    ELSE (((a % 2) + (b % 2)) % 2) + 2 * Xor(a \div 2, b \div 2)

\* g_new0 zeroes the struct: file_count is 0 until the caller assigns it
rm_directory_new(dirname) ==
    [dirname     |-> dirname,
     known_files |-> <<>>,
     children    |-> <<>>,
     common_hash |-> 0,
     file_count  |-> 0,
     finished    |-> FALSE,
     hash_trie   |-> {}]

\* g_queue_push_head
PushHead(q, x) == <<x>> \o q

\* rm_directory_add: the file at the head of known_files, the first word of
\* its digest xor-ed into common_hash, the whole digest a key of hash_trie
rm_directory_add(directory, file) ==
    [directory EXCEPT
        !.known_files = PushHead(@, file),
        !.common_hash = Xor(@, file.digest[1]),
        !.hash_trie   = @ \cup {file.digest}]

\* rm_directory_add for every file of a queue, head first
RECURSIVE AddFiles(_, _, _)
AddFiles(directory, files, i) ==
    IF i > Len(files) THEN directory
    ELSE AddFiles(rm_directory_add(directory, files[i]), files, i + 1)

\* a slip in rm_directory_equal: the tries are not compared
rm_directory_equal_hash_only(d1, d2) == d1.common_hash = d2.common_hash

\* rm_directory_equal: equal common_hash, equal art_size, and art_iter over
\* d1's trie finds every key in d2's
rm_directory_equal(d1, d2) ==
    /\ d1.common_hash = d2.common_hash
    /\ Cardinality(d1.hash_trie) = Cardinality(d2.hash_trie)
    /\ \A key \in d1.hash_trie : key \in d2.hash_trie

\* rm_directory_hash: common_hash cut to a guint
rm_directory_hash(d) == d.common_hash % Pow2(UintBits)

\* the hash GHashTable keeps with a node: 0 and 1 mark unused and tombstone
\* slots, so a key hashing to them is stored under 2
NodeHash(d) ==
    LET h == rm_directory_hash(d) IN IF h >= 2 THEN h ELSE 2

\* a slip in the test for a full directory: <= for ==
IsFull_at_most(d) == Len(d.known_files) <= d.file_count

\* known_files.length == file_count
IsFull(d) == Len(d.known_files) = d.file_count

---------------------------------------------------------------------------
(* The merger: m = [dir_tree, valid_dirs, result_table]                    *)

\* g_hash_table_lookup: the first node whose stored hash is the key's hash
\* and whose key (as the directory is now) is rm_directory_equal to it;
\* 0 when there is none
LookupNode(table, dirs, directory) ==
    LET hits == {i \in 1..Len(table) :
                   /\ table[i].key_hash = NodeHash(directory)
                   /\ rm_directory_equal(dirs[table[i].key], directory)}
    IN  IF hits = {} THEN 0 ELSE CHOOSE i \in hits : \A j \in hits : i <= j

\* rm_tm_insert_dir: the directory at the head of the queue of its node, a
\* new node keyed by the directory when the lookup finds none
rm_tm_insert_dir(table, dirs, name) ==
    LET directory == dirs[name]
        i == LookupNode(table, dirs, directory)
    IN  IF i = 0
        THEN Append(table, [key_hash |-> NodeHash(directory),
                            key      |-> name,
                            queue    |-> <<name>>])
        ELSE [table EXCEPT ![i].queue = PushHead(@, name)]

\* dirs with the entry of name set (art_insert, or a write through the pointer)
Put(dirs, name, directory) ==
    [k \in DOMAIN dirs \cup {name} |-> IF k = name THEN directory ELSE dirs[k]]

\* rm_tm_feed
rm_tm_feed(m, file) ==
    LET dirname == g_path_get_dirname(file.path)
        known   == dirname \in DOMAIN m.dir_tree
        fresh   == [rm_directory_new(dirname) EXCEPT
                       !.file_count = CountLookup(count_tree, dirname)]
        before  == IF known THEN m.dir_tree[dirname] ELSE fresh
        after   == rm_directory_add(before, file)
        dirs    == Put(m.dir_tree, dirname, after)
    IN  [dir_tree     |-> dirs,
         valid_dirs   |-> IF known THEN m.valid_dirs
                          ELSE PushHead(m.valid_dirs, dirname),
         result_table |-> IF IsFull(after)
                          THEN rm_tm_insert_dir(m.result_table, dirs, dirname)
                          ELSE m.result_table]

---------------------------------------------------------------------------
(* rm_tm_finish: one pass of the promotion loop *)

\* the body of the loop over valid_dirs for one directory.  acc holds the
\* directories, new_dirs and the log of the promotions of this pass
LevelUp(acc, name) ==
    LET directory  == acc.dirs[name]
        parent_dir == g_path_get_dirname(name)
        found      == parent_dir \in DOMAIN acc.dirs
        \* parent == NULL: the parent is created and registered, and the
        \* count of the parent path is written to the CHILD's file_count
        dirs1 == IF found THEN acc.dirs
                 ELSE Put(Put(acc.dirs, parent_dir, rm_directory_new(parent_dir)),
                          name,
                          [directory EXCEPT
                              !.file_count = CountLookup(count_tree, parent_dir)])
        new1  == IF found THEN acc.new_dirs ELSE PushHead(acc.new_dirs, name)
        \* the loop walks the nodes known_files had when it started, also
        \* when the parent is the directory itself (the parent of "/")
        files == dirs1[name].known_files
        dirs2 == Put(dirs1, parent_dir, AddFiles(dirs1[parent_dir], files, 1))
        dirs3 == [dirs2 EXCEPT ![parent_dir].children = PushHead(@, name)]
    IN  [dirs     |-> dirs3,
         new_dirs |-> new1,
         log      |-> Append(acc.log,
                        [dir        |-> name,
                         parent     |-> parent_dir,
                         created    |-> ~found,
                         length     |-> Len(directory.known_files),
                         file_count |-> directory.file_count])]

RECURSIVE LevelUpAll(_, _, _)
LevelUpAll(acc, queue, i) ==
    IF i > Len(queue) THEN acc
    ELSE LevelUpAll(LevelUp(acc, queue[i]), queue, i + 1)

\* the loop over new_dirs: a full directory goes back to valid_dirs and into
\* the result table
KeepFull(m, name) ==
    IF IsFull(m.dir_tree[name])
    THEN [m EXCEPT
            !.valid_dirs   = PushHead(@, name),
            !.result_table = rm_tm_insert_dir(@, m.dir_tree, name)]
    ELSE m

RECURSIVE KeepFullAll(_, _, _)
KeepFullAll(m, queue, i) ==
    IF i > Len(queue) THEN m
    ELSE KeepFullAll(KeepFull(m, queue[i]), queue, i + 1)

\* one iteration of while(self->valid_dirs.length > 0)
FinishPass(m) ==
    LET up == LevelUpAll([dirs |-> m.dir_tree, new_dirs |-> <<>>, log |-> <<>>],
                         m.valid_dirs, 1)
    IN  KeepFullAll([dir_tree     |-> up.dirs,
                     valid_dirs   |-> <<>>,
                     result_table |-> m.result_table],
                    up.new_dirs, 1)

\* the promotions the pass makes, in order
PassLog(m) ==
    LevelUpAll([dirs |-> m.dir_tree, new_dirs |-> <<>>, log |-> <<>>],
               m.valid_dirs, 1).log

\* the whole loop
RECURSIVE FinishLoop(_)
FinishLoop(m) == IF m.valid_dirs = <<>> THEN m ELSE FinishLoop(FinishPass(m))

---------------------------------------------------------------------------
(* rm_tm_extract *)

Min(a, b) == IF a < b THEN a ELSE b

\* the separators among the first n bytes of p
SeparatorsIn(p, n) == Cardinality({i \in 1..n : p[i] = G_DIR_SEPARATOR})

\* rm_tm_sort_paths: the loop runs while both strings have a byte, so it
\* reads only the first min(len a, len b) bytes of each
rm_tm_sort_paths(a, b) ==
    LET n == Min(Len(a), Len(b))
        depth_balance == SeparatorsIn(a, n) - SeparatorsIn(b, n)
    IN  IF depth_balance < -1 THEN -1
        ELSE IF depth_balance > 1 THEN 1
        ELSE depth_balance

\* g_list_sort_merge: the head of l1 when the comparison is <= 0
RECURSIVE SortMerge(_, _)
SortMerge(l1, l2) ==
    IF l1 = <<>> THEN l2
    ELSE IF l2 = <<>> THEN l1
    ELSE IF rm_tm_sort_paths(Head(l1), Head(l2)) <= 0
         THEN <<Head(l1)>> \o SortMerge(Tail(l1), l2)
         ELSE <<Head(l2)>> \o SortMerge(l1, Tail(l2))

\* g_queue_sort (g_list_sort_real): a merge sort, the first half being the
\* shorter one
RECURSIVE g_queue_sort(_)
g_queue_sort(list) ==
    IF Len(list) <= 1 THEN list
    ELSE LET h == Len(list) \div 2
         IN  SortMerge(g_queue_sort(SubSeq(list, 1, h)),
                       g_queue_sort(SubSeq(list, h + 1, Len(list))))

\* the elements of a queue
Range(q) == {q[i] : i \in 1..Len(q)}

\* the directories rm_tm_mark_finished reaches from a set of directories
RECURSIVE Reach(_, _)
Reach(dirs, names) ==
    LET next == names \cup UNION {Range(dirs[n].children) : n \in names}
    IN  IF next = names THEN names ELSE Reach(dirs, next)

\* the directories below name in the children lists
Descendants(dirs, name) == Reach(dirs, Range(dirs[name].children))

\* the recursion of rm_tm_mark_finished from name never returns: it comes
\* back to a directory it is still working on
Recurses(dirs, name) ==
    \E n \in Reach(dirs, {name}) : n \in Descendants(dirs, n)

\* a slip in rm_tm_mark_finished: the children are not visited
rm_tm_mark_finished_flat(dirs, name) ==
    [n \in DOMAIN dirs |->
        IF n = name THEN [dirs[n] EXCEPT !.finished = TRUE] ELSE dirs[n]]

\* rm_tm_mark_finished
rm_tm_mark_finished(dirs, name) ==
    [n \in DOMAIN dirs |->
        IF n \in Reach(dirs, {name})
        THEN [dirs[n] EXCEPT !.finished = TRUE] ELSE dirs[n]]

\* the inner loop of rm_tm_extract for one directory of a sorted queue
ExtractOne(acc, name) ==
    IF acc.crashed \/ acc.dirs[name].finished THEN acc
    ELSE IF Recurses(acc.dirs, name)
         THEN [acc EXCEPT !.dirs = rm_tm_mark_finished(@, name),
                          !.crashed = TRUE]
         ELSE [acc EXCEPT !.dirs = rm_tm_mark_finished(@, name),
                          !.group = Append(@, name)]

RECURSIVE ExtractQueue(_, _, _)
ExtractQueue(acc, queue, i) ==
    IF i > Len(queue) THEN acc
    ELSE ExtractQueue(ExtractOne(acc, queue[i]), queue, i + 1)

\* one iteration of the loop over the result table: the queue is sorted
\* in place, its unfinished directories are printed, then the "--" line
ExtractBucket(acc, n) ==
    IF acc.crashed THEN acc
    ELSE LET sorted == g_queue_sort(acc.table[n].queue)
             got == ExtractQueue([dirs |-> acc.dirs, group |-> <<>>,
                                  crashed |-> FALSE],
                                 sorted, 1)
         IN  [dirs    |-> got.dirs,
              table   |-> [acc.table EXCEPT ![n].queue = sorted],
              groups  |-> Append(acc.groups, got.group),
              crashed |-> got.crashed]

RECURSIVE ExtractAll(_, _, _)
ExtractAll(acc, order, i) ==
    IF i > Len(order) THEN acc
    ELSE ExtractAll(ExtractBucket(acc, order[i]), order, i + 1)

\* rm_tm_extract, the hash table iterated in the given order of its nodes
rm_tm_extract(dirs, table, order) ==
    ExtractAll([dirs |-> dirs, table |-> table, groups |-> <<>>,
                crashed |-> FALSE],
               order, 1)

---------------------------------------------------------------------------
(* The state machine *)

Merger == [dir_tree |-> dir_tree, valid_dirs |-> valid_dirs,
           result_table |-> result_table]

\* rm_tm_new: the merger it returns.  The value of rm_tm_count_files is
\* dropped, the merger is returned whatever it was
rm_tm_new(files, end) ==
    [count_tree   |-> rm_tm_count_files_walk(files, end).count_tree,
     dir_tree     |-> [k \in {} |-> rm_directory_new(k)],
     valid_dirs   |-> <<>>,
     result_table |-> <<>>]

\* the state rm_tm_new leaves, over the given files; a walk that failed
\* has counted none
InitOver(files) ==
    /\ walk \in WalkOutcomes
    /\ counted \in IF walk = "ok" THEN SUBSET files ELSE {{}}
    /\ LET self == rm_tm_new(counted, walk) IN
        /\ count_tree = self.count_tree
        /\ dir_tree = self.dir_tree
        /\ valid_dirs = self.valid_dirs
        /\ result_table = self.result_table
    /\ output = <<>>
    /\ pc = "feed"
    /\ fed = {}
    /\ promoted = <<>>

Init == InitOver(Files)

\* rm_tm_feed(self, file)
Feed(file) ==
    /\ pc = "feed"
    /\ file \notin fed
    /\ Cardinality(fed) < MaxFeeds
    /\ LET m == rm_tm_feed(Merger, file) IN
        /\ dir_tree' = m.dir_tree
        /\ valid_dirs' = m.valid_dirs
        /\ result_table' = m.result_table
    /\ fed' = fed \cup {file}
    /\ UNCHANGED <<count_tree, output, pc, walk, counted, promoted>>

\* rm_tm_finish: one pass of its loop, the first one being the call
Pass ==
    /\ pc \in {"feed", "finish"}
    /\ valid_dirs # <<>>
    /\ LET m == FinishPass(Merger) IN
        /\ dir_tree' = m.dir_tree
        /\ valid_dirs' = m.valid_dirs
        /\ result_table' = m.result_table
    /\ promoted' = PassLog(Merger)
    /\ pc' = "finish"
    /\ UNCHANGED <<count_tree, output, walk, counted, fed>>

\* rm_tm_finish: the loop is left and rm_tm_extract runs.  The order in
\* which g_hash_table_iter_next hands out the nodes is GLib's
Extract(order) ==
    /\ pc \in {"feed", "finish"}
    /\ valid_dirs = <<>>
    /\ LET x == rm_tm_extract(dir_tree, result_table, order) IN
        /\ dir_tree' = x.dirs
        /\ result_table' = x.table
        /\ output' = x.groups
        /\ pc' = IF x.crashed THEN "crashed" ELSE "done"
    /\ UNCHANGED <<count_tree, valid_dirs, walk, counted, fed, promoted>>

\* rm_tm_finish called a second time on the merger: valid_dirs is empty,
\* so the loop is skipped and rm_tm_extract runs again
FinishAgain(order) ==
    /\ pc = "done"
    /\ valid_dirs = <<>>
    /\ LET x == rm_tm_extract(dir_tree, result_table, order) IN
        /\ dir_tree' = x.dirs
        /\ result_table' = x.table
        /\ output' = output \o x.groups
        /\ pc' = IF x.crashed THEN "crashed" ELSE "again"
    /\ UNCHANGED <<count_tree, valid_dirs, walk, counted, fed, promoted>>

\* the orders g_hash_table_iter_next can hand out the nodes in: a sequence
\* of the node indices, each once
IterOrders ==
    {o \in [1..Len(result_table) -> 1..Len(result_table)] :
        \A i, j \in 1..Len(result_table) : o[i] = o[j] => i = j}

Next ==
    \/ \E file \in Files : Feed(file)
    \/ Pass
    \/ \E order \in IterOrders : Extract(order)
    \/ \E order \in IterOrders : FinishAgain(order)

Spec == Init /\ [][Next]_vars

---------------------------------------------------------------------------
(* The same merger over a second file system, whose directory names differ *)
(* in length: four directories of one file each, all with the same digest, *)
(* and one more file beside one of them.                                    *)
(* rm_tm_sort_paths reads the first min(len a, len b) bytes only, so here   *)
(* it is not an ordering and g_queue_sort has work to do.                   *)

LongNameFileList ==
    << File(<<"/", "a", "/", "b", "b", "/", "x">>, <<1, 0>>),
       File(<<"/", "a", "/", "a", "/", "x">>, <<1, 0>>),
       File(<<"/", "c", "c", "c", "/", "a", "/", "x">>, <<1, 0>>),
       File(<<"/", "b", "b", "/", "x">>, <<1, 0>>),
       File(<<"/", "c", "c", "c", "/", "y">>, <<2, 0>>) >>

LongNameFiles == {LongNameFileList[i] : i \in 1..Len(LongNameFileList)}

InitLongNames == InitOver(LongNameFiles)

NextLongNames ==
    \/ \E file \in LongNameFiles : Feed(file)
    \/ Pass
    \/ \E order \in IterOrders : Extract(order)
    \/ \E order \in IterOrders : FinishAgain(order)

SpecLongNames == InitLongNames /\ [][NextLongNames]_vars

---------------------------------------------------------------------------
(* What the claims speak of *)

\* rm_tm_finish has returned, or died in rm_tm_extract
Finished == pc \in {"done", "crashed"}

\* the printed lines, in the order they were printed
RECURSIVE Flatten(_, _)
Flatten(groups, i) ==
    IF i > Len(groups) THEN <<>> ELSE groups[i] \o Flatten(groups, i + 1)

EmittedSeq == Flatten(output, 1)

\* the directories emitted
Emitted == Range(EmittedSeq)

CountedUnder(d) == {f \in counted : Under(f.path, d)}
FedUnder(d) == {f \in fed : Under(f.path, d)}

\* every fed file is one the pre-pass counted
FedWereCounted == fed \subseteq counted

\* the digests of a set of files, with their multiplicities
DigestBag(S) ==
    [g \in {f.digest : f \in Files} |-> Cardinality({f \in S : f.digest = g})]

\* the equivalence of the data model, on the fields of two aggregates
Equivalent(d1, d2) ==
    /\ d1.common_hash = d2.common_hash
    /\ Cardinality(d1.hash_trie) = Cardinality(d2.hash_trie)
    /\ d1.hash_trie \subseteq d2.hash_trie
    /\ d2.hash_trie \subseteq d1.hash_trie

---------------------------------------------------------------------------
(* C1 *)

\* the file lies in a subdirectory of R, not in R itself
InSubdirOf(f, R) == g_path_get_dirname(g_path_get_dirname(f.path)) = R

\* R and S are two unrelated directories, all their counted files lie in
\* their subdirectories and were fed, and nothing else under them was fed;
\* their digest multisets are equal
CascadeCase(R, S) ==
    /\ R # S /\ ~Under(R, S) /\ ~Under(S, R)
    /\ CountedUnder(R) # {} /\ CountedUnder(S) # {}
    /\ FedUnder(R) = CountedUnder(R) /\ FedUnder(S) = CountedUnder(S)
    /\ \A f \in CountedUnder(R) : InSubdirOf(f, R)
    /\ \A f \in CountedUnder(S) : InSubdirOf(f, S)
    /\ DigestBag(CountedUnder(R)) = DigestBag(CountedUnder(S))

\* C1: cascade promotion.  After finish of a run that fed counted files
\* only, two directories in the cascade case are complete and emitted
\* together in one group, and no directory under either of them is emitted.
C1_CascadePromotion ==
    (pc = "done" /\ FedWereCounted) =>
        \A R \in AllDirs, S \in AllDirs :
            CascadeCase(R, S) =>
                /\ R \in DOMAIN dir_tree /\ S \in DOMAIN dir_tree
                /\ Len(dir_tree[R].known_files) = CountLookup(count_tree, R)
                /\ Len(dir_tree[S].known_files) = CountLookup(count_tree, S)
                /\ \E i \in 1..Len(output) : {R, S} \subseteq Range(output[i])
                /\ \A d \in Emitted : ~Under(d, R) /\ ~Under(d, S)

---------------------------------------------------------------------------
(* C2 *)

\* C2 as stated: soundness against the counter for every sequence of feeds
\* of distinct files.  An emitted directory has exactly as many fed files
\* under it as its count_tree entry says.
C2_SoundAnyFeeds ==
    Finished =>
        \A d \in Emitted : Cardinality(FedUnder(d)) = CountLookup(count_tree, d)

\* C2 amended: an emitted directory has at least as many fed files under it
\* as its count_tree entry says, so a directory with fewer fed files than
\* counted is never emitted; and it has exactly as many when every fed file
\* is one the pre-pass counted.
C2_SoundCountedFeeds ==
    Finished =>
        \A d \in Emitted :
            /\ Cardinality(FedUnder(d)) >= CountLookup(count_tree, d)
            /\ FedWereCounted =>
                  Cardinality(FedUnder(d)) = CountLookup(count_tree, d)

\* a run of counted feeds that emits a directory and leaves another one,
\* with fewer files fed than counted, out
C2_Witness ==
    /\ pc = "done" /\ FedWereCounted
    /\ Emitted # {}
    /\ \E d \in DOMAIN dir_tree :
          /\ d \notin Emitted
          /\ FedUnder(d) # {}
          /\ Cardinality(FedUnder(d)) < CountLookup(count_tree, d)

---------------------------------------------------------------------------
(* C3 *)

\* C3: every directory emitted by a run that fed counted files only has
\* known_files.length == file_count when it is emitted (rm_tm_extract
\* changes neither field).
C3_EmittedAreFull ==
    (Finished /\ FedWereCounted) => \A d \in Emitted : IsFull(dir_tree[d])

---------------------------------------------------------------------------
(* C4 *)

\* two directories of one emitted group
SameGroup(d1, d2) ==
    \E i \in 1..Len(output) : d1 \in Range(output[i]) /\ d2 \in Range(output[i])

C4_CollisionKeptApart ==
    /\ pc = "done" /\ FedWereCounted
    /\ \E d1 \in Emitted, d2 \in Emitted :
          /\ d1 # d2
          /\ Len(dir_tree[d1].known_files) = 2
          /\ Len(dir_tree[d2].known_files) = 2
          /\ dir_tree[d1].common_hash = dir_tree[d2].common_hash
          /\ dir_tree[d1].hash_trie # dir_tree[d2].hash_trie
          /\ ~SameGroup(d1, d2)

---------------------------------------------------------------------------
(* C5 *)

\* the directories that are in a queue of the result table
InTable == UNION {Range(result_table[i].queue) : i \in 1..Len(result_table)}

\* C5: suppression.  No directory is emitted after a directory that has it
\* in the transitive closure of its children, in the same group or a later one.
C5_Suppression ==
    Finished =>
        \A i \in 1..Len(EmittedSeq), j \in 1..Len(EmittedSeq) :
            i < j => EmittedSeq[j] \notin Descendants(dir_tree, EmittedSeq[i])

\* a directory was emitted, and a descendant of it that stands in the
\* result table was not
C5_Witness ==
    /\ pc = "done"
    /\ \E d \in Emitted :
          \E e \in Descendants(dir_tree, d) : e \in InTable /\ e \notin Emitted

---------------------------------------------------------------------------
(* C6 *)

\* C6: singleton suppression.  Every directory emitted by a run that fed
\* counted files only shares its group with another directory.
C6_NoSingletons ==
    (Finished /\ FedWereCounted) =>
        \A i \in 1..Len(output) :
            \A d \in Range(output[i]) : \E e \in Range(output[i]) : e # d

---------------------------------------------------------------------------
(* C7 *)

\* C7: within every group emitted by a run that fed counted files only the
\* directories come shallowest first, whatever the lengths of their paths.
C7_ShallowestFirst ==
    (Finished /\ FedWereCounted) =>
        \A i \in 1..Len(output) :
            \A a \in 1..Len(output[i]), b \in 1..Len(output[i]) :
                a < b => Depth(output[i][a]) <= Depth(output[i][b])

---------------------------------------------------------------------------
(* C8 *)

EmptyMerger ==
    [dir_tree     |-> [k \in {} |-> rm_directory_new(k)],
     valid_dirs   |-> <<>>,
     result_table |-> <<>>]

RECURSIVE FeedAll(_, _, _)
FeedAll(m, files, i) ==
    IF i > Len(files) THEN m
    ELSE FeedAll(rm_tm_feed(m, files[i]), files, i + 1)

\* the fed files in the order of FileList
IsFed(f) == f \in fed
FedInListOrder == SelectSeq(FileList, IsFed)

\* the equivalence classes of the result grouping and the fingerprint of
\* every aggregate
Outcome(m) ==
    [classes      |-> {Range(m.result_table[i].queue) :
                          i \in 1..Len(m.result_table)},
     fingerprints |-> [d \in DOMAIN m.dir_tree |-> m.dir_tree[d].common_hash]]

\* C8: order independence.  When finish has run on counted files, the
\* classes and the fingerprints are those of feeding the same files in the
\* order of FileList and finishing, whatever the order they were fed in.
C8_OrderIndependent ==
    (pc = "done" /\ FedWereCounted) =>
        Outcome(Merger) = Outcome(FinishLoop(FeedAll(EmptyMerger, FedInListOrder, 1)))

---------------------------------------------------------------------------
(* C9 *)

\* C9: a directory is promoted only once it is complete.  In a run that
\* fed counted files only, every promotion of the last pass found
\* known_files.length == file_count in the directory it promoted.
C9_PromotedAreFull ==
    FedWereCounted => \A i \in 1..Len(promoted) : promoted[i].length = promoted[i].file_count

---------------------------------------------------------------------------
(* C10 *)

\* C10: expected_count is fixed at creation.  In a run that feeds counted
\* files only, no step changes the file_count of an aggregate that exists,
\* and an aggregate a step creates has the count_tree entry of its own path.
C10_CountFixedAtCreation ==
    [][ FedWereCounted' =>
          /\ \A d \in DOMAIN dir_tree :
                dir_tree'[d].file_count = dir_tree[d].file_count
          /\ \A d \in (DOMAIN dir_tree') \ (DOMAIN dir_tree) :
                dir_tree'[d].file_count = CountLookup(count_tree, d) ]_vars

---------------------------------------------------------------------------
(* C11 *)

\* C11: a directory whose count_tree lookup yields 0 is never complete,
\* never stands in a queue of the result table and is never emitted.
C11_ZeroCountStaysOut ==
    \A d \in DOMAIN dir_tree :
        CountLookup(count_tree, d) = 0 =>
            /\ ~IsFull(dir_tree[d])
            /\ d \notin InTable
            /\ d \notin Emitted

---------------------------------------------------------------------------
(* C12 *)

\* C12: every error of the counter pre-pass aborts construction.  A merger
\* that feed or finish has run on is one whose walk ended well, its
\* count_tree being the one of the files the walk met.
C12_FailedWalkAborts ==
    (fed # {} \/ pc # "feed") => walk = "ok"

---------------------------------------------------------------------------
(* C13 *)

\* the file lies in the directory itself
DirectlyIn(f, d) == g_path_get_dirname(f.path) = d

\* every file counted under d was fed, some of them lying directly in d
\* and some in directories below it
CompleteByPromotion(d) ==
    /\ FedUnder(d) = CountedUnder(d)
    /\ \E f \in FedUnder(d) : DirectlyIn(f, d)
    /\ \E f \in FedUnder(d) : ~DirectlyIn(f, d)

\* C13: after finish of a run that fed counted files only, every directory
\* whose counted files were all fed, some directly in it and some in
\* directories below it, stands in a queue of the result table.
C13_CompleteByPromotionInTable ==
    (pc = "done" /\ FedWereCounted) =>
        \A d \in AllDirs : CompleteByPromotion(d) => d \in InTable

---------------------------------------------------------------------------
(* C14 *)

\* C14: idempotence of finish.  A second call of rm_tm_finish, right after
\* the first one returned, leaves valid_dirs empty, changes no aggregate,
\* no children list and no queue of the result table, and prints no
\* directory.
C14_SecondFinishIsNoOp ==
    [][ (pc = "done" /\ pc' # "done") =>
          /\ pc' = "again"
          /\ valid_dirs' = <<>>
          /\ dir_tree' = dir_tree
          /\ result_table' = result_table
          /\ Flatten(output', 1) = Flatten(output, 1) ]_vars

---------------------------------------------------------------------------
(* C15 *)

\* C15: finish is total.  On a merger whose pre-pass succeeded and that
\* was fed counted files only, rm_tm_extract never gets into a recursion
\* of rm_tm_mark_finished that does not return.
C15_FinishReturns ==
    (walk = "ok" /\ FedWereCounted) => pc # "crashed"

---------------------------------------------------------------------------
(* C16 *)

Max(a, b) == IF a > b THEN a ELSE b

\* the largest depth of the directories of a queue, 0 for the empty queue
RECURSIVE MaxDepth(_, _)
MaxDepth(q, i) ==
    IF i > Len(q) THEN 0 ELSE Max(Depth(q[i]), MaxDepth(q, i + 1))

\* C16: every pass of the loop of rm_tm_finish over counted files lowers
\* the largest depth in valid_dirs, and every directory it leaves in
\* valid_dirs is the parent, created by this pass, of a directory that was
\* in valid_dirs before.
C16_PassAscends ==
    [][ (valid_dirs # <<>> /\ pc' = "finish" /\ FedWereCounted) =>
          /\ MaxDepth(valid_dirs', 1) < MaxDepth(valid_dirs, 1)
          /\ \A d \in Range(valid_dirs') :
                /\ d \notin DOMAIN dir_tree
                /\ \E c \in Range(valid_dirs) : d = g_path_get_dirname(c) ]_vars

---------------------------------------------------------------------------
(* C17 *)

\* the places where d stands in a children sequence
ChildPlaces(d) ==
    UNION {{<<p, i>> : i \in {j \in 1..Len(dir_tree[p].children) :
                                  dir_tree[p].children[j] = d}} :
           p \in DOMAIN dir_tree}

\* C17: the children relation is a forest.  In every state of a run over
\* counted files, every aggregate stands at most once in all the children
\* sequences together, and no aggregate is below itself.
C17_ChildrenAreForest ==
    FedWereCounted =>
        \A d \in DOMAIN dir_tree :
            /\ Cardinality(ChildPlaces(d)) <= 1
            /\ d \notin Descendants(dir_tree, d)

---------------------------------------------------------------------------
(* C18 *)

\* the place where d was first pushed onto a queue: rm_tm_insert_dir
\* pushes at the head, so it is the last place d stands at
FirstInsertion(q, d) ==
    CHOOSE i \in 1..Len(q) : q[i] = d /\ \A j \in (i + 1)..Len(q) : q[j] # d

\* a was inserted into the queue before b was: it stands nearer the tail
InsertedBefore(q, a, b) == FirstInsertion(q, a) > FirstInsertion(q, b)

\* C18: the tie-break of extraction.  When rm_tm_extract prints a group of
\* a run over counted files, two directories of it that have the same depth
\* come in the order they were inserted into their queue of the result
\* table, the first one inserted first.
C18_TiesInInsertionOrder ==
    [][ (pc \in {"feed", "finish"} /\ pc' = "done" /\ FedWereCounted) =>
          \A k \in 1..Len(output') :
              \E n \in 1..Len(result_table) :
                  /\ Range(output'[k]) \subseteq Range(result_table[n].queue)
                  /\ \A i \in 1..Len(output'[k]), j \in 1..Len(output'[k]) :
                        (i < j /\ Depth(output'[k][i]) = Depth(output'[k][j])) =>
                            InsertedBefore(result_table[n].queue,
                                           output'[k][i], output'[k][j]) ]_vars

---------------------------------------------------------------------------
(* C19 *)

\* d is a proper directory prefix of the path p: p goes on after d with a
\* separator, or d is the root and p starts with it
IsDirPrefix(d, p) ==
    /\ Len(d) < Len(p)
    /\ SubSeq(p, 1, Len(d)) = d
    /\ (d = <<G_DIR_SEPARATOR>> \/ p[Len(d) + 1] = G_DIR_SEPARATOR)

\* every non-empty prefix of every path of the file system, the full paths
\* among them
PathPrefixes ==
    UNION {{SubSeq(f.path, 1, n) : n \in 1..Len(f.path)} : f \in Files}

---------------------------------------------------------------------------
(* C20 *)

\* the sequence holds no element twice
NoDuplicates(q) == \A i \in 1..Len(q), j \in 1..Len(q) : q[i] = q[j] => i = j

\* C20: every file being fed at most once, and counted files only, no
\* aggregate has the same file twice in known_files, in any state: its
\* known_files are at most as many as the fed files under its path.
C20_KnownFilesOnce ==
    FedWereCounted =>
        \A d \in DOMAIN dir_tree :
            /\ NoDuplicates(dir_tree[d].known_files)
            /\ Len(dir_tree[d].known_files) <= Cardinality(FedUnder(d))

=============================================================================
